---- MODULE Spec2Model ----
(***************************************************************************)
(* Arc-Spy (src/bot.py): the panel registry, its durable store, the        *)
(* periodic reconciler (update_event_panels), the register / unregister    *)
(* commands and the paginated item catalog cache.                          *)
(*                                                                         *)
(* The bot runs on one asyncio event loop: the code between two awaits     *)
(* runs without interleaving, so every action below is one such segment    *)
(* (from the resumption of an await to the next await, or to the return).  *)
(***************************************************************************)
EXTENDS Integers, Sequences, FiniteSets, TLC

\* ------------------------------------------------------------------ domains

\* Guild ids (str(guild.id) in the code; single digits, so the string order
\* json.dump(sort_keys=True) uses is the numeric order).
Guilds == {1, 2}

\* The channel a guild's commands are issued in: one channel per guild.
ChannelOf(g) == g

\* Message ids that exist at start (the panels of the initial store).
InitMessages == {1, 2}

\* How many events from outside one run takes: commands (set_event_panel,
\* remove_event_panel, update_events), reconnects, deletions of messages and
\* channels. The first ready event and the loop's own iterations are free.
MaxOps == 2

\* The runners of update_event_panels: the tasks.loop task and a command
\* handler awaiting update_event_panels() directly.
Cycles == {"loop", "cmd"}

Outcomes == {"none", "ok", "notfound", "nochannel", "forbidden", "http",
             "malformed", "skipped"}

\* ------------------------------------------------------------------ registry values

\* A panel as stored: {"channel_id": c, "message_id": m}.
Panel(c, m) == [kind |-> "panel", channel_id |-> c, message_id |-> m]

\* A stored value that panel.get / int() cannot read (not a mapping, or a
\* field that is no number): only a hand-edited store holds one.
JunkPanel == [kind |-> "junk", channel_id |-> 0, message_id |-> 0]

Entry(g, p) == [gid |-> g, panel |-> p]

\* dict operations on a registry kept as the sequence of its items, in
\* insertion order (the order list(GUILD_CFG.items()) yields).
Keys(cfg) == {cfg[i].gid : i \in 1..Len(cfg)}

Has(cfg, g) == g \in Keys(cfg)

Get(cfg, g) == cfg[CHOOSE i \in 1..Len(cfg) : cfg[i].gid = g].panel

\* (mutant) cfg.setdefault(g, p): an existing key keeps its value.
Put_KeepsExisting(cfg, g, p) ==
  IF Has(cfg, g) THEN cfg ELSE Append(cfg, Entry(g, p))

\* cfg[g] = p: an existing key keeps its position, a new one goes last.
Put(cfg, g, p) ==
  IF Has(cfg, g)
  THEN [i \in 1..Len(cfg) |-> IF cfg[i].gid = g THEN Entry(g, p) ELSE cfg[i]]
  ELSE Append(cfg, Entry(g, p))

\* cfg.pop(g, None)
Pop(cfg, g) == SelectSeq(cfg, LAMBDA e : e.gid # g)

\* for gid in dead_guilds: GUILD_CFG.pop(gid, None)
RECURSIVE PopAll(_, _)
PopAll(cfg, dead) ==
  IF dead = <<>> THEN cfg ELSE PopAll(Pop(cfg, Head(dead)), Tail(dead))

\* The entry of g, or a marker when there is none (to compare registries).
NoEntry == [kind |-> "absent", channel_id |-> 0, message_id |-> 0]

EntryOf(cfg, g) == IF Has(cfg, g) THEN Get(cfg, g) ELSE NoEntry

\* ------------------------------------------------------------------ durable store

\* The file at CONFIG_PATH: missing, unreadable as a JSON object, or a JSON
\* object whose items are in the order they were written.
MissingFile == [state |-> "missing", data |-> <<>>]

CorruptFile == [state |-> "corrupt", data |-> <<>>]

\* json.dump(cfg, f, indent=2, sort_keys=True): the items sorted by key.
Dump(cfg) == [state |-> "dict", data |-> SortSeq(cfg, LAMBDA a, b : a.gid < b.gid)]

load_guild_cfg(file) == IF file.state = "dict" THEN file.data ELSE <<>>

\* The registry a reader of the file finds in it.
Stored(file) == load_guild_cfg(file)

InitDisks ==
  { MissingFile,
    Dump(<<Entry(1, Panel(1, 1)), Entry(2, Panel(2, 2))>>),
    Dump(<<Entry(1, JunkPanel), Entry(2, Panel(2, 2))>>),
    Dump(<<Entry(1, Panel(0, 0)), Entry(2, Panel(2, 2))>>) }

\* ------------------------------------------------------------------ catalog values

\* Text is a sequence of characters; this alphabet has an upper-case letter and
\* its lower-case form twice over, and the blank.
LowerChar(ch) == IF ch = "B" THEN "b" ELSE IF ch = "P" THEN "p" ELSE ch

\* str.lower()
Lower(t) == [i \in 1..Len(t) |-> LowerChar(t[i])]

\* str.strip()
RECURSIVE LStrip(_)
LStrip(t) == IF t # <<>> /\ Head(t) = " " THEN LStrip(Tail(t)) ELSE t

RECURSIVE RStrip(_)
RStrip(t) ==
  IF t # <<>> /\ t[Len(t)] = " " THEN RStrip(SubSeq(t, 1, Len(t) - 1)) ELSE t

Strip(t) == LStrip(RStrip(t))

\* An entry of a catalog page: a mapping with a name that is text (or is not,
\* or is missing) and a rarity, or something that is no mapping at all.
Item(t, r) == [kind |-> "dict", name_is_str |-> TRUE, name |-> t, rarity |-> r]

NamelessItem == [kind |-> "dict", name_is_str |-> FALSE, name |-> <<>>, rarity |-> "common"]

NotAnItem == [kind |-> "other", name_is_str |-> FALSE, name |-> <<>>, rarity |-> "common"]

\* The list payloads a catalog page may carry.
PagePayloads ==
  { <<Item(<<"B">>, "common"), Item(<<"B", " ", "P">>, "epic")>>,
    <<Item(<<" ", "b", " ">>, "rare"), Item(<<" ">>, "common"), NamelessItem>>,
    <<NotAnItem>> }

\* The pages a catalog may report at most.
MaxPages == 2

\* The "pagination" member of the first page: missing (or null, or empty), a
\* mapping whose totalPages is a number, or is missing, or is text that is no
\* number, or a member that is no mapping.
Paginations ==
  {[kind |-> "absent", totalPages |-> 0],
   [kind |-> "map_without_total", totalPages |-> 0],
   [kind |-> "map_text_total", totalPages |-> 0],
   [kind |-> "not_a_map", totalPages |-> 0]}
  \cup {[kind |-> "map", totalPages |-> k] : k \in 0..MaxPages}

\* pagination = first.get("pagination") or {}
\* total_pages = int(pagination.get("totalPages") or 1)
\* raises for a non-mapping (no .get) and for text that is no number.
TotalPagesRaises(pg) == pg.kind \in {"not_a_map", "map_text_total"}

total_pages_of(pg) ==
  IF pg.kind = "map" /\ pg.totalPages # 0 THEN pg.totalPages ELSE 1

\* build_items_index(raw_items) raises when an entry has no .get.
BuildRaises(raw) == \E i \in 1..Len(raw) : raw[i].kind # "dict"

\* by_name[nm.strip().lower()] = it, for the entries whose name is text that
\* is not blank, in list order: a later entry replaces an earlier one.
RECURSIVE IndexInto(_, _)
IndexInto(by_name, raw) ==
  IF raw = <<>> THEN by_name
  ELSE LET it == Head(raw)
           key == Lower(Strip(it.name))
       IN IF it.name_is_str /\ Strip(it.name) # <<>>
          THEN IndexInto([k \in DOMAIN by_name \cup {key} |->
                            IF k = key THEN it ELSE by_name[k]], Tail(raw))
          ELSE IndexInto(by_name, Tail(raw))

EmptyIndex == [k \in {} |-> NotAnItem]

\* (mutant) on a collision the entry met first is kept.
build_items_index_FirstWins(raw) ==
  IndexInto(EmptyIndex, [i \in 1..Len(raw) |-> raw[Len(raw) + 1 - i]])

build_items_index(raw) == IndexInto(EmptyIndex, raw)

\* dict.get(key): the entry, or None.
NoItem == [kind |-> "none", name_is_str |-> FALSE, name |-> <<>>, rarity |-> "common"]

IndexGet(by_name, key) == IF key \in DOMAIN by_name THEN by_name[key] ELSE NoItem

\* The blueprint CSV at BLUEPRINTS_CSV_PATH: missing, unreadable (open or the
\* decoding raises), or readable with these BlueprintName cells.
CsvFiles ==
  { [state |-> "missing", names |-> <<>>],
    [state |-> "unreadable", names |-> <<>>],
    [state |-> "rows", names |-> << <<" ", "B">>, <<" ">>, <<"P">> >>] }

\* load_blueprints_csv: db[name.lower()] = info for the rows whose cleaned
\* name is not empty; the info is modelled by its name.
RECURSIVE RowsInto(_, _)
RowsInto(db, names) ==
  IF names = <<>> THEN db
  ELSE LET name == Strip(Head(names)) IN
       IF name = <<>> THEN RowsInto(db, Tail(names))
       ELSE RowsInto([k \in DOMAIN db \cup {Lower(name)} |->
                        IF k = Lower(name) THEN name ELSE db[k]], Tail(names))

EmptyDb == [k \in {} |-> <<>>]

load_blueprints_csv(file) ==
  IF file.state = "rows" THEN RowsInto(EmptyDb, file.names) ELSE EmptyDb

\* The tasks that run refresh_item_cache: the weekly loop, and a caller that
\* awaits it directly (setup_hook, refresh_cache prefix and slash).
Refreshers == {"weekly", "cmd"}

\* How many catalog events one run takes: cops started, renders, reloads
\* of the blueprint dataset and changes of its file.
MaxCatalogOps == 2

\* ------------------------------------------------------------------ state

VARIABLES
  GUILD_CFG,    \* the in-memory registry (module global)
  disk,         \* the file at CONFIG_PATH
  ready,        \* on_ready has run at least once
  ops,          \* events from outside taken so far
  channels,     \* channel ids bot.get_channel resolves
  messages,     \* message ids that exist
  content,      \* what each message shows: "stale" or "view"
  newMsgs,      \* messages posted by the register command so far
  pc,           \* per runner of update_event_panels: where it is
  embed,        \* per runner: the view it computed ("none" before)
  snap,         \* per runner: list(GUILD_CFG.items()) taken for the sweep
  idx,          \* per runner: position in snap of the panel being updated
  dead_guilds,  \* per runner: guild ids marked for removal
  outs,         \* per runner: what the sweep did with each guild's panel
  writes,       \* per runner: save_guild_cfg calls made by this cycle
  result,       \* per runner: how the cycle ended
  last_iteration_failed,  \* the loop's flag: its last body raised and is retried
  reg,          \* per guild: the set_event_panel handler in flight
  ITEMS_RAW,    \* the catalog entries as fetched (module global)
  ITEMS_BY_NAME,\* the catalog index (module global)
  BP_DB,        \* the blueprint index (module global)
  csv,          \* the blueprint CSV file
  rpc,          \* per refresher: where load_items_all_pages is
  page,         \* per refresher: the page it is fetching
  total_pages,  \* per refresher: the page count it read from page 1
  first,        \* per refresher: the response to its request for page 1
  all_items,    \* per refresher: the entries gathered so far
  routcome,     \* per refresher: how its refresh ended
  cops,         \* catalog events taken so far
  shown,        \* what the last render found in the indexes
  tmp,          \* the file at CONFIG_PATH + ".tmp"
  spc,          \* where the save_guild_cfg call in progress is
  op,           \* the registry mutation whose save is in progress or was last
  reply,        \* what that mutation's requester has been told
  crashed,      \* the process has died and has not been started again
  clock,        \* the wall clock, in milliseconds since the epoch
  schedule,     \* the list the events-schedule endpoint returns
  built,        \* the last two embeds built, the latest first
  ticks,        \* resolver events taken so far
  view,         \* the BlueprintView of the browse session followed
  idle,         \* seconds since that view was sent or last ran a callback
  nexts,        \* Next presses the view has run
  prevs,        \* Prev presses the view has run
  answer,       \* who made the last browse request and what came of it
  bops,         \* browse events taken so far
  requests,     \* per owner command: its form, whether it failed, its reply
  loops,        \* per periodic loop: its live tasks, and start() calls refused
  save_raised   \* the latest save_guild_cfg call raised

panelVars == <<GUILD_CFG, disk, ready, ops, channels, messages, content, newMsgs,
               pc, embed, snap, idx, dead_guilds, outs, writes, result,
               last_iteration_failed, reg>>

cycleVars == <<pc, embed, snap, idx, dead_guilds, outs, writes, result,
               last_iteration_failed>>

worldVars == <<channels, messages, content>>

catalogVars == <<ITEMS_RAW, ITEMS_BY_NAME, BP_DB, csv, rpc, page, total_pages,
                 first, all_items, routcome, cops, shown>>

storeVars == <<tmp, spc, op, reply, crashed>>

resolverVars == <<clock, schedule, built, ticks>>

browseVars == <<view, idle, nexts, prevs, answer, bops>>

auxVars == <<storeVars, resolverVars, browseVars, requests, loops,
             save_raised>>

vars == <<panelVars, catalogVars, auxVars>>

NoOuts == [g \in Guilds |-> "none"]

PanelInit ==
  /\ GUILD_CFG = <<>>
  /\ disk \in InitDisks
  /\ ready = FALSE
  /\ ops = 0
  /\ channels = {ChannelOf(g) : g \in Guilds}
  /\ messages = InitMessages
  /\ content = [m \in InitMessages |-> "stale"]
  /\ newMsgs = 0
  /\ pc = [c \in Cycles |-> "idle"]
  /\ embed = [c \in Cycles |-> "none"]
  /\ snap = [c \in Cycles |-> <<>>]
  /\ idx = [c \in Cycles |-> 0]
  /\ dead_guilds = [c \in Cycles |-> <<>>]
  /\ outs = [c \in Cycles |-> NoOuts]
  /\ writes = [c \in Cycles |-> 0]
  /\ result = [c \in Cycles |-> "none"]
  /\ last_iteration_failed = FALSE
  /\ reg = [g \in Guilds |-> "idle"]

NothingShown == [item |-> NoItem, in_db |-> FALSE, during_refresh |-> FALSE]

\* The catalog before its first refresh.
\* No response to a request for page 1 yet.
NoResponse == [kind |-> "none", data |-> <<>>,
               pagination |-> [kind |-> "absent", totalPages |-> 0]]

CatalogIdle ==
  /\ ITEMS_RAW = <<>>
  /\ ITEMS_BY_NAME = EmptyIndex
  /\ rpc = [r \in Refreshers |-> "idle"]
  /\ page = [r \in Refreshers |-> 0]
  /\ total_pages = [r \in Refreshers |-> 0]
  /\ first = [r \in Refreshers |-> NoResponse]
  /\ all_items = [r \in Refreshers |-> <<>>]
  /\ routcome = [r \in Refreshers |-> "none"]
  /\ cops = 0
  /\ shown = NothingShown

CatalogInit ==
  /\ CatalogIdle
  /\ BP_DB = EmptyDb
  /\ csv = [state |-> "missing", names |-> <<>>]

\* No registry mutation yet.
NoOp == [kind |-> "none", gid |-> 0, panel |-> NoEntry, dead |-> <<>>,
         existed |-> FALSE, before |-> MissingFile, saving |-> <<>>,
         save_failed |-> FALSE]

StoreInit ==
  /\ tmp = MissingFile
  /\ spc = "idle"
  /\ op = NoOp
  /\ reply = "none"
  /\ crashed = FALSE

\* No session.
NoView == [blueprint_names |-> <<>>, author_id |-> 0, idx |-> 0]

\* at: the number of the browse event that was answered.
NoAnswer == [by |-> 0, got |-> "none", at |-> 0]

BrowseInit ==
  /\ view = NoView
  /\ idle = 0
  /\ nexts = 0
  /\ prevs = 0
  /\ answer = NoAnswer
  /\ bops = 0

\* The owner commands that run an operation on the catalog or the dataset.
OwnerCommands == {"refresh_cache", "reload_blueprints"}

\* A command comes as a prefix command (A$...) or as a slash command.
Forms == {"prefix", "slash"}

NoRequest == [form |-> "none", failed |-> FALSE, said |-> "none"]

RequestsInit == requests = [o \in OwnerCommands |-> NoRequest]

\* The periodic loops: update_event_panels (5 minutes) and
\* refresh_cache_weekly (168 hours).
Loops == {"update_event_panels", "refresh_cache_weekly"}

\* Before the first ready event no loop has a task.
LoopsInit == loops = [l \in Loops |-> [tasks |-> 0, refused |-> FALSE]]

\* The resolver at rest: nothing built yet.
ResolverIdle == built = <<>> /\ ticks = 0

ResolverInit ==
  /\ ResolverIdle
  /\ clock = 0
  /\ schedule = <<>>

Init ==
  /\ PanelInit /\ CatalogInit /\ StoreInit /\ ResolverInit /\ BrowseInit
  /\ RequestsInit /\ LoopsInit /\ save_raised = FALSE

\* One more event from outside is taken.
TakeOp == ops < MaxOps /\ ops' = ops + 1

\* ------------------------------------------------------------------ startup

\* (mutant) on_ready calls start() without asking.
is_running_Unasked(c) == FALSE

\* Loop.is_running(): the loop's task exists and has not ended.
is_running(c) == pc[c] \notin {"idle", "dead"}

\* X.is_running() for either loop: update_event_panels is the runner "loop";
\* refresh_cache_weekly's body catches every exception, so its task, once
\* created, does not end.
LoopIsRunning(l) ==
  IF l = "update_event_panels" THEN is_running("loop") ELSE loops[l].tasks > 0

\* if not X.is_running(): X.start(). Loop.start() creates the loop's task,
\* and raises RuntimeError when the loop already has a task that has not
\* ended.
StartUnlessRunning(l) ==
  IF LoopIsRunning(l) THEN loops[l]
  ELSE IF loops[l].tasks > 0 THEN [loops[l] EXCEPT !.refused = TRUE]
  ELSE [loops[l] EXCEPT !.tasks = @ + 1]

\* on_ready: reload the registry from the file, start the loop unless it runs.
\* Loop.start() only creates the task; its first iteration runs when scheduled.
on_ready ==
  /\ ~ready \/ ops < MaxOps
  /\ ops' = IF ready THEN ops + 1 ELSE ops
  /\ ready' = TRUE
  /\ GUILD_CFG' = load_guild_cfg(disk)
  /\ pc' = [pc EXCEPT !["loop"] = IF is_running("loop") THEN @ ELSE "sleep"]
  /\ loops' = [l \in Loops |-> StartUnlessRunning(l)]
  /\ save_raised' = FALSE
  /\ UNCHANGED <<disk, worldVars, newMsgs, embed, snap, idx, dead_guilds, outs,
                 writes, result, last_iteration_failed, reg>>
  /\ UNCHANGED <<catalogVars, storeVars, resolverVars, browseVars, requests>>

\* ------------------------------------------------------------------ the world

\* A panel message is deleted by a guild member.
DeleteMessage ==
  \E m \in messages :
    /\ TakeOp
    /\ messages' = messages \ {m}
    /\ UNCHANGED <<GUILD_CFG, disk, ready, channels, content, newMsgs,
                   cycleVars, reg>>
    /\ UNCHANGED <<catalogVars, auxVars>>

\* A channel is deleted (or the bot loses sight of it): get_channel gives None.
DeleteChannel ==
  \E ch \in channels :
    /\ TakeOp
    /\ channels' = channels \ {ch}
    /\ UNCHANGED <<GUILD_CFG, disk, ready, messages, content, newMsgs,
                   cycleVars, reg>>
    /\ UNCHANGED <<catalogVars, auxVars>>

\* ------------------------------------------------------------------ save_guild_cfg

\* (mutant) the write is put off to a later step of the handler.
Saved_Deferred(cfg, ok) == disk

\* save_guild_cfg(cfg): either the file is replaced by the dump of cfg, or
\* open / write / os.replace raises OSError and the file is left as it was.
\* ok says which; Saved is the file afterwards.
Saved(cfg, ok) == IF ok THEN Dump(cfg) ELSE disk

\* A step that calls save_guild_cfg(cfg): the file afterwards, and whether
\* the call raised.
Save(cfg) ==
  \E ok \in BOOLEAN :
    /\ disk' = Saved(cfg, ok)
    /\ save_raised' = ~ok

\* ------------------------------------------------------------------ register / unregister

\* The id of the n-th message the bot posts.
NewMsgId(n) == Cardinality(InitMessages) + n

\* set_event_panel (prefix and slash): up to the first await, the schedule
\* fetch of build_active_events_embed.
SetPanelStart(g) ==
  /\ reg[g] = "idle"
  /\ ChannelOf(g) \in channels
  /\ TakeOp
  /\ reg' = [reg EXCEPT ![g] = "building"]
  /\ UNCHANGED <<GUILD_CFG, disk, ready, worldVars, newMsgs, cycleVars>>
  /\ UNCHANGED <<catalogVars, auxVars>>

\* The schedule fetch returns: the embed is built and channel.send awaited, or
\* the fetch raises and the handler ends with nothing changed.
SetPanelBuilt(g) ==
  /\ reg[g] = "building"
  /\ \E fetched \in BOOLEAN :
       reg' = [reg EXCEPT ![g] = IF fetched THEN "sending" ELSE "idle"]
  /\ UNCHANGED <<GUILD_CFG, disk, ready, ops, worldVars, newMsgs, cycleVars>>
  /\ UNCHANGED <<catalogVars, auxVars>>

\* channel.send returns the new message: the registry entry is set and saved
\* with no await in between.
SetPanelSent(g) ==
  /\ reg[g] = "sending"
  /\ ChannelOf(g) \in channels
  /\ LET m == NewMsgId(newMsgs + 1) IN
       /\ messages' = messages \cup {m}
       /\ content' = [x \in DOMAIN content \cup {m} |->
                        IF x = m THEN "view" ELSE content[x]]
       /\ newMsgs' = newMsgs + 1
       /\ GUILD_CFG' = Put(GUILD_CFG, g, Panel(ChannelOf(g), m))
       /\ Save(GUILD_CFG')
  /\ reg' = [reg EXCEPT ![g] = "idle"]
  /\ UNCHANGED <<ready, ops, channels, cycleVars>>
  /\ UNCHANGED <<catalogVars, storeVars, resolverVars, browseVars, requests, loops>>

\* channel.send raises (Forbidden, HTTPException): nothing is registered.
SetPanelSendFails(g) ==
  /\ reg[g] = "sending"
  /\ reg' = [reg EXCEPT ![g] = "idle"]
  /\ UNCHANGED <<GUILD_CFG, disk, ready, ops, worldVars, newMsgs, cycleVars>>
  /\ UNCHANGED <<catalogVars, auxVars>>

\* remove_event_panel (prefix and slash): pop and save, no await in between.
RemovePanel(g) ==
  /\ TakeOp
  /\ GUILD_CFG' = Pop(GUILD_CFG, g)
  /\ Save(GUILD_CFG')
  /\ UNCHANGED <<ready, worldVars, newMsgs, cycleVars, reg>>
  /\ UNCHANGED <<catalogVars, storeVars, resolverVars, browseVars, requests, loops>>

\* ------------------------------------------------------------------ update_event_panels

\* What tasks.loop does when the body raises exc: OSError (with the client and
\* gateway errors) is retried after a backoff, since the loop is created with the
\* default reconnect=True; any other exception ends the loop's task.
LoopOnException(exc) == IF exc = "OSError" THEN "done" ELSE "dead"

\* Where the runner is after its body raised exc: the loop as above, a command
\* handler simply ends (the framework logs the error).
AfterRaise(c, exc) == IF c = "loop" THEN LoopOnException(exc) ELSE "done"

\* (mutant) the fetch failure is not caught: it leaves the body as an exception.
OnBuildFailure_Raises == "raise"

\* try: embed = await build_active_events_embed() / except Exception: return
OnBuildFailure == "return"

\* The body starts: `if not GUILD_CFG: return`, else the schedule fetch of
\* build_active_events_embed is awaited. The loop starts it when its timer
\* fires, a command handler (update_events, prefix or slash) when invoked.
BeginCycle(c) ==
  /\ pc[c] = IF c = "loop" THEN "sleep" ELSE "idle"
  /\ IF c = "loop" THEN UNCHANGED ops ELSE TakeOp
  /\ IF GUILD_CFG = <<>>
     THEN /\ pc' = [pc EXCEPT ![c] = "done"]
          /\ result' = [result EXCEPT ![c] = "empty"]
          /\ last_iteration_failed' = (c # "loop" /\ last_iteration_failed)
     ELSE /\ pc' = [pc EXCEPT ![c] = "build"]
          /\ result' = [result EXCEPT ![c] = "running"]
          /\ UNCHANGED last_iteration_failed
  /\ UNCHANGED <<GUILD_CFG, disk, ready, worldVars, newMsgs, embed, snap,
                 idx, dead_guilds, outs, writes, reg>>
  /\ UNCHANGED <<catalogVars, auxVars>>

\* The part of the sweep that runs without an await: from position i of the
\* snapshot s, panels that cannot be read are skipped (the outer except), panels
\* with a zero id are passed over, panels whose channel does not resolve are
\* marked dead; it stops at the first panel whose message must be fetched
\* (idx <= Len(s)) or at the end of the snapshot (idx = Len(s) + 1).
\* (mutant) a panel that cannot be read ends the sweep: no except around the
\* body of the for loop.
RECURSIVE Sweep_StopsAtUnreadable(_, _, _, _)
Sweep_StopsAtUnreadable(s, i, dead, o) ==
  IF i > Len(s) THEN [idx |-> i, dead |-> dead, outs |-> o]
  ELSE LET g == s[i].gid
           p == s[i].panel
       IN IF p.kind # "panel"
          THEN [idx |-> Len(s) + 1, dead |-> dead, outs |-> [o EXCEPT ![g] = "malformed"]]
          ELSE IF p.channel_id = 0 \/ p.message_id = 0
          THEN Sweep_StopsAtUnreadable(s, i + 1, dead, [o EXCEPT ![g] = "skipped"])
          ELSE IF p.channel_id \notin channels
          THEN Sweep_StopsAtUnreadable(s, i + 1, Append(dead, g),
                                       [o EXCEPT ![g] = "nochannel"])
          ELSE [idx |-> i, dead |-> dead, outs |-> o]

RECURSIVE Sweep(_, _, _, _)
Sweep(s, i, dead, o) ==
  IF i > Len(s) THEN [idx |-> i, dead |-> dead, outs |-> o]
  ELSE LET g == s[i].gid
           p == s[i].panel
       IN IF p.kind # "panel"
          THEN Sweep(s, i + 1, dead, [o EXCEPT ![g] = "malformed"])
          ELSE IF p.channel_id = 0 \/ p.message_id = 0
          THEN Sweep(s, i + 1, dead, [o EXCEPT ![g] = "skipped"])
          ELSE IF p.channel_id \notin channels
          THEN Sweep(s, i + 1, Append(dead, g), [o EXCEPT ![g] = "nochannel"])
          ELSE [idx |-> i, dead |-> dead, outs |-> o]

\* (mutant) one save per removed registration.
SavesInPrune_PerRemoval(dead) == Len(dead)

\* The save_guild_cfg calls of the pruning step.
SavesInPrune(dead) == IF dead # <<>> THEN 1 ELSE 0

\* The registry after the pruning step.
Pruned(cfg, dead) == PopAll(cfg, dead)

\* The sweep goes on from position i of snapshot s with the marks so far: to
\* the next fetch_message, or through the pruning step to the end of the body.
Resume(c, s, i, dead, o) ==
  LET r == Sweep(s, i, dead, o) IN
    /\ idx' = [idx EXCEPT ![c] = r.idx]
    /\ dead_guilds' = [dead_guilds EXCEPT ![c] = r.dead]
    /\ outs' = [outs EXCEPT ![c] = r.outs]
    /\ writes' = [writes EXCEPT ![c] = @ + SavesInPrune(r.dead)
                                          * (IF r.idx > Len(s) THEN 1 ELSE 0)]
    /\ IF r.idx <= Len(s)
       THEN /\ pc' = [pc EXCEPT ![c] = "deliver"]
            /\ UNCHANGED <<GUILD_CFG, disk, result, last_iteration_failed,
                           save_raised>>
       ELSE IF SavesInPrune(r.dead) = 0
       THEN /\ GUILD_CFG' = Pruned(GUILD_CFG, r.dead)
            /\ pc' = [pc EXCEPT ![c] = "done"]
            /\ result' = [result EXCEPT ![c] = "completed"]
            /\ last_iteration_failed' = (c # "loop" /\ last_iteration_failed)
            /\ UNCHANGED <<disk, save_raised>>
       ELSE /\ GUILD_CFG' = Pruned(GUILD_CFG, r.dead)
            /\ \E ok \in BOOLEAN :
                 /\ disk' = Saved(GUILD_CFG', ok)
                 /\ save_raised' = ~ok
                 /\ pc' = [pc EXCEPT ![c] = IF ok THEN "done"
                                            ELSE AfterRaise(c, "OSError")]
                 /\ result' = [result EXCEPT ![c] = IF ok THEN "completed"
                                                    ELSE "save_failed"]
                 /\ last_iteration_failed' =
                      IF c = "loop" THEN ~ok ELSE last_iteration_failed

\* The schedule fetch returns: the view is built, the registry is listed and
\* the sweep starts.
BuildDone(c) ==
  /\ pc[c] = "build"
  /\ embed' = [embed EXCEPT ![c] = "view"]
  /\ snap' = [snap EXCEPT ![c] = GUILD_CFG]
  /\ Resume(c, GUILD_CFG, 1, <<>>, NoOuts)
  /\ UNCHANGED <<ready, ops, worldVars, newMsgs, reg>>
  /\ UNCHANGED <<catalogVars, storeVars, resolverVars, browseVars, requests, loops>>

\* (mutant) the schedule fetch raises and the panels are blanked.
BuildFails_BlanksPanels(c) ==
  /\ pc[c] = "build"
  /\ pc' = [pc EXCEPT ![c] = "done"]
  /\ result' = [result EXCEPT ![c] = "fetch_failed"]
  /\ content' = [m \in DOMAIN content |-> "none"]
  /\ last_iteration_failed' = (c # "loop" /\ last_iteration_failed)
  /\ UNCHANGED <<GUILD_CFG, disk, ready, ops, channels, messages, newMsgs, embed,
                 snap, idx, dead_guilds, outs, writes, reg>>
  /\ UNCHANGED <<catalogVars, auxVars>>

\* The schedule fetch raises: the body logs and returns.
BuildFails(c) ==
  /\ pc[c] = "build"
  /\ pc' = [pc EXCEPT ![c] = IF OnBuildFailure = "return" THEN "done"
                             ELSE AfterRaise(c, "RuntimeError")]
  /\ result' = [result EXCEPT ![c] = "fetch_failed"]
  /\ last_iteration_failed' = (c # "loop" /\ last_iteration_failed)
  /\ UNCHANGED <<GUILD_CFG, disk, ready, ops, worldVars, newMsgs, embed, snap,
                 idx, dead_guilds, outs, writes, reg>>
  /\ UNCHANGED <<catalogVars, auxVars>>

\* What `msg = await channel.fetch_message(msg_id); await msg.edit(embed=embed)`
\* can end with for panel p: NotFound only when the message is gone.
DeliveryOutcomes(p) ==
  IF p.message_id \in messages /\ p.channel_id \in channels
  THEN {"ok", "forbidden", "http"}
  ELSE {"notfound", "forbidden", "http"}

\* (mutant) NotFound is logged like the other errors and marks nothing.
MarkDead_Never(dead, g, o) == dead

\* (mutant) a permission denial marks the registration too.
MarkDead_AlsoForbidden(dead, g, o) ==
  IF o \in {"notfound", "forbidden"} THEN Append(dead, g) ELSE dead

\* The marks after the delivery to guild g ended with o.
MarkDead(dead, g, o) == IF o = "notfound" THEN Append(dead, g) ELSE dead

\* fetch_message / edit of the panel at idx returns or raises; the sweep goes on.
\* (The two awaits are one step: between them the runner changes nothing.)
Deliver(c) ==
  /\ pc[c] = "deliver"
  /\ LET g == snap[c][idx[c]].gid
         p == snap[c][idx[c]].panel
     IN \E o \in DeliveryOutcomes(p) :
          /\ content' = IF o = "ok"
                        THEN [content EXCEPT ![p.message_id] = embed[c]]
                        ELSE content
          /\ Resume(c, snap[c], idx[c] + 1, MarkDead(dead_guilds[c], g, o),
                    [outs[c] EXCEPT ![g] = o])
  /\ UNCHANGED <<ready, ops, channels, messages, newMsgs, embed, snap, reg>>
  /\ UNCHANGED <<catalogVars, storeVars, resolverVars, browseVars, requests, loops>>

\* The body has ended: the loop sleeps until its next iteration, the command
\* handler replies and ends.
EndCycle(c) ==
  /\ pc[c] = "done"
  /\ pc' = [pc EXCEPT ![c] = IF c = "loop" THEN "sleep" ELSE "idle"]
  /\ embed' = [embed EXCEPT ![c] = "none"]
  /\ snap' = [snap EXCEPT ![c] = <<>>]
  /\ idx' = [idx EXCEPT ![c] = 0]
  /\ dead_guilds' = [dead_guilds EXCEPT ![c] = <<>>]
  /\ outs' = [outs EXCEPT ![c] = NoOuts]
  /\ writes' = [writes EXCEPT ![c] = 0]
  /\ result' = [result EXCEPT ![c] = "none"]
  /\ UNCHANGED <<GUILD_CFG, disk, ready, ops, worldVars, newMsgs,
                 last_iteration_failed, reg>>
  /\ UNCHANGED <<catalogVars, auxVars>>

\* ------------------------------------------------------------------ refresh_item_cache

\* One more catalog event is taken.
TakeCatalogOp == cops < MaxCatalogOps /\ cops' = cops + 1

\* A refresh starts: refresh_item_cache calls load_items_all_pages, which
\* awaits page 1.
BeginRefresh(r) ==
  /\ rpc[r] = "idle"
  /\ TakeCatalogOp
  /\ rpc' = [rpc EXCEPT ![r] = "first"]
  /\ page' = [page EXCEPT ![r] = 1]
  /\ routcome' = [routcome EXCEPT ![r] = "running"]
  /\ IF r = "cmd"
     THEN \E form \in Forms :
            requests' = [requests EXCEPT !["refresh_cache"] =
                           [form |-> form, failed |-> FALSE, said |-> "pending"]]
     ELSE UNCHANGED requests
  /\ UNCHANGED <<ITEMS_RAW, ITEMS_BY_NAME, BP_DB, csv, total_pages, all_items,
                 shown>>
  /\ UNCHANGED <<first, panelVars, storeVars, resolverVars, browseVars, loops, save_raised>>

\* (mutant) the index is rebuilt from the entries gathered so far after each
\* page.
IndexWhileFetching_PerPage(items) ==
  IF BuildRaises(items) THEN ITEMS_BY_NAME ELSE build_items_index(items)

\* The index while load_items_all_pages is still awaiting pages: the globals
\* are assigned only after it has returned.
IndexWhileFetching(items) == ITEMS_BY_NAME

\* (mutant) the entries gathered before the failure are kept as the catalog.
FailRefresh_KeepsPartial(r, why) ==
  /\ rpc' = [rpc EXCEPT ![r] = "done"]
  /\ routcome' = [routcome EXCEPT ![r] = why]
  /\ ITEMS_RAW' = all_items[r]
  /\ ITEMS_BY_NAME' = IF BuildRaises(all_items[r]) THEN ITEMS_BY_NAME
                      ELSE build_items_index(all_items[r])
  /\ UNCHANGED <<page, total_pages, all_items>>

\* load_items_all_pages raises (why says where): the assignment
\* `ITEMS_RAW = await load_items_all_pages(...)` does not happen.
FailRefresh(r, why) ==
  /\ rpc' = [rpc EXCEPT ![r] = "done"]
  /\ routcome' = [routcome EXCEPT ![r] = why]
  /\ UNCHANGED <<ITEMS_RAW, ITEMS_BY_NAME, page, total_pages, all_items>>

\* Page p of the catalog has been added, more pages follow: the next is awaited.
KeepFetching(r, items) ==
  /\ rpc' = [rpc EXCEPT ![r] = "pages"]
  /\ page' = [page EXCEPT ![r] = @ + 1]
  /\ all_items' = [all_items EXCEPT ![r] = items]
  /\ ITEMS_BY_NAME' = IndexWhileFetching(items)
  /\ UNCHANGED <<ITEMS_RAW, routcome>>

\* load_items_all_pages returns items: ITEMS_RAW is assigned, then the index is
\* built from it and assigned, with no await in between; when the build raises,
\* ITEMS_RAW stays assigned and the index stays the old one.
CommitRefresh(r, items) ==
  /\ rpc' = [rpc EXCEPT ![r] = "done"]
  /\ all_items' = [all_items EXCEPT ![r] = items]
  /\ ITEMS_RAW' = items
  /\ IF BuildRaises(items)
     THEN /\ routcome' = [routcome EXCEPT ![r] = "index_failed"]
          /\ UNCHANGED ITEMS_BY_NAME
     ELSE /\ routcome' = [routcome EXCEPT ![r] = "ok"]
          /\ ITEMS_BY_NAME' = build_items_index(ITEMS_RAW')
  /\ UNCHANGED page

\* The ways a page request ends without a list: fetch_json raises (status not
\* 200, network error), or the payload's data is no list.
PageFailures == {"request_failed", "not_a_list"}

\* Page 1 arrives.
FirstPage(r) ==
  /\ rpc[r] = "first"
  /\ \/ /\ \E why \in PageFailures : FailRefresh(r, why)
        /\ UNCHANGED <<total_pages, first>>
     \/ \E d \in PagePayloads, pg \in Paginations :
          /\ first' = [first EXCEPT ![r] = [kind |-> "page", data |-> d,
                                            pagination |-> pg]]
          /\ IF TotalPagesRaises(pg)
             THEN FailRefresh(r, "bad_pagination") /\ UNCHANGED total_pages
             ELSE /\ total_pages' = [total_pages EXCEPT ![r] = total_pages_of(pg)]
                  /\ IF total_pages_of(pg) >= 2
                     THEN KeepFetching(r, d)
                     ELSE CommitRefresh(r, d)
  /\ UNCHANGED <<BP_DB, csv, cops, shown>>
  /\ UNCHANGED <<panelVars, auxVars>>

\* Page 2, 3, ... arrives.
NextPage(r) ==
  /\ rpc[r] = "pages"
  /\ \/ \E why \in PageFailures : FailRefresh(r, why)
     \/ \E d \in PagePayloads :
          IF page[r] < total_pages[r]
          THEN KeepFetching(r, all_items[r] \o d)
          ELSE CommitRefresh(r, all_items[r] \o d)
  /\ UNCHANGED <<BP_DB, csv, total_pages, cops, shown>>
  /\ UNCHANGED <<first, panelVars, auxVars>>

\* prefix_refresh_cache awaits refresh_item_cache() bare: an exception leaves
\* the handler, on_command_error logs it and nothing is sent.
\* slash_refresh_cache wraps the call: except Exception sends "Refresh
\* failed: {e}". Both reply "Refreshed (n items)." when it returns.
refresh_cache_reply(form, outcome) ==
  IF outcome = "ok" THEN "Refreshed"
  ELSE IF form = "slash" THEN "Refresh failed"
  ELSE "no_reply"

\* prefix_reload_blueprints and slash_reload_blueprints call
\* reload_blueprints() bare: an exception leaves the handler, the error
\* handler (on_command_error, on_app_command_error) logs it and nothing is
\* sent. Both reply "Reloaded (n entries)." when it returns.
reload_blueprints_reply(form, raised) ==
  IF raised THEN "no_reply" ELSE "Reloaded"

\* The caller of refresh_item_cache goes on: the weekly loop logs a failure
\* and sleeps, a command replies (setup_hook's warm-up, which logs as the
\* loop does, is not followed as a request).
EndRefresh(r) ==
  /\ rpc[r] = "done"
  /\ rpc' = [rpc EXCEPT ![r] = "idle"]
  /\ page' = [page EXCEPT ![r] = 0]
  /\ total_pages' = [total_pages EXCEPT ![r] = 0]
  /\ all_items' = [all_items EXCEPT ![r] = <<>>]
  /\ first' = [first EXCEPT ![r] = NoResponse]
  /\ routcome' = [routcome EXCEPT ![r] = "none"]
  /\ requests' =
       IF r = "cmd"
       THEN [requests EXCEPT !["refresh_cache"] =
               [form |-> @.form, failed |-> routcome[r] # "ok",
                said |-> refresh_cache_reply(@.form, routcome[r])]]
       ELSE requests
  /\ UNCHANGED <<ITEMS_RAW, ITEMS_BY_NAME, BP_DB, csv, cops, shown>>
  /\ UNCHANGED <<panelVars, storeVars, resolverVars, browseVars, loops, save_raised>>

\* ------------------------------------------------------------------ blueprints

\* The CSV file is replaced, removed or made unreadable.
ChangeCsv ==
  /\ TakeCatalogOp
  /\ \E f \in CsvFiles \ {csv} : csv' = f
  /\ UNCHANGED <<ITEMS_RAW, ITEMS_BY_NAME, BP_DB, rpc, page, total_pages,
                 all_items, routcome, shown>>
  /\ UNCHANGED <<first, panelVars, auxVars>>

\* reload_blueprints: BP_DB = load_blueprints_csv(path), all in one step; when
\* reading the file raises, the assignment does not happen. The command that
\* called it (reload_blueprints, prefix or slash) replies in the same step.
reload_blueprints ==
  /\ TakeCatalogOp
  /\ BP_DB' = IF csv.state = "unreadable" THEN BP_DB ELSE load_blueprints_csv(csv)
  /\ \E form \in Forms :
       requests' = [requests EXCEPT !["reload_blueprints"] =
                      [form |-> form, failed |-> csv.state = "unreadable",
                       said |-> reload_blueprints_reply(form,
                                                        csv.state = "unreadable")]]
  /\ UNCHANGED <<ITEMS_RAW, ITEMS_BY_NAME, csv, rpc, page, total_pages,
                 all_items, routcome, shown>>
  /\ UNCHANGED <<first, panelVars, storeVars, resolverVars, browseVars, loops, save_raised>>

\* find_item_for_blueprint(bp_name): "<name> Blueprint", the name, and
\* "<name> blueprint", each lower-cased, looked up in ITEMS_BY_NAME; the first
\* hit. (" Blueprint" is <<" ", "P">> in this alphabet.)
find_item_for_blueprint(bp_name) ==
  LET c1 == Lower(bp_name \o <<" ", "P">>)
      c2 == Lower(bp_name)
      c3 == Lower(bp_name \o <<" ", "p">>)
  IN IF c1 \in DOMAIN ITEMS_BY_NAME THEN ITEMS_BY_NAME[c1]
     ELSE IF c2 \in DOMAIN ITEMS_BY_NAME THEN ITEMS_BY_NAME[c2]
     ELSE IndexGet(ITEMS_BY_NAME, c3)

\* The names a browse session shows.
BrowseNames == { <<"B">>, <<"P">> }

\* BlueprintView.embed for bp_name: BP_DB.get(bp_name.lower()) and
\* find_item_for_blueprint(bp_name), with no await in between.
Render ==
  /\ TakeCatalogOp
  /\ \E bp_name \in BrowseNames :
       shown' = [item |-> find_item_for_blueprint(bp_name),
                 in_db |-> Lower(bp_name) \in DOMAIN BP_DB,
                 during_refresh |-> \E r \in Refreshers : rpc[r] = "pages"]
  /\ UNCHANGED <<ITEMS_RAW, ITEMS_BY_NAME, BP_DB, csv, rpc, page, total_pages,
                 all_items, routcome>>
  /\ UNCHANGED <<first, panelVars, auxVars>>

\* ------------------------------------------------------------------ save_guild_cfg, step by step

\* save_guild_cfg and its callers run without an await, so no other handler
\* runs between their steps; what can fall between two steps is the death of
\* the process. The steps below are those of one mutation of the registry:
\* the change in memory, the save (open, dump and close, replace), the reply.

\* The parts of the panel state a registry mutation leaves alone.
cycleAndWorld == <<ready, channels, pc, embed, snap, idx, dead_guilds, outs,
                   writes, result, last_iteration_failed, reg>>

\* (mutant) the dump is written straight to CONFIG_PATH.
SaveTarget_Canonical == "canonical"

\* tmp = CONFIG_PATH + ".tmp": the file the dump is written to.
SaveTarget == "tmp"

\* (mutant) the handler catches the error of the save and goes on.
OnSaveFailure_Swallows == "swallow"

\* save_guild_cfg is called outside any try: its error leaves the handler.
OnSaveFailure == "raise"

\* A mutation starts its save: the registry is as changed, the file as it was.
StartSave(kind, g, p, dead, existed) ==
  /\ spc' = "open"
  /\ op' = [kind |-> kind, gid |-> g, panel |-> p, dead |-> dead,
            existed |-> existed, before |-> disk, saving |-> GUILD_CFG',
            save_failed |-> FALSE]
  /\ reply' = "none"
  /\ UNCHANGED <<disk, tmp, crashed>>

\* set_event_panel after channel.send has returned the new message:
\* GUILD_CFG[gid] = {...}, then save_guild_cfg(GUILD_CFG).
RegisterPanel(g) ==
  /\ ~crashed /\ spc = "idle"
  /\ ChannelOf(g) \in channels
  /\ TakeOp
  /\ LET m == NewMsgId(newMsgs + 1) IN
       /\ messages' = messages \cup {m}
       /\ content' = [x \in DOMAIN content \cup {m} |->
                        IF x = m THEN "view" ELSE content[x]]
       /\ newMsgs' = newMsgs + 1
       /\ GUILD_CFG' = Put(GUILD_CFG, g, Panel(ChannelOf(g), m))
       /\ StartSave("register", g, Panel(ChannelOf(g), m), <<>>, Has(GUILD_CFG, g))
  /\ UNCHANGED <<cycleAndWorld, catalogVars, resolverVars, browseVars, requests, loops, save_raised>>

\* remove_event_panel: existed = GUILD_CFG.pop(gid, None), then
\* save_guild_cfg(GUILD_CFG).
UnregisterPanel(g) ==
  /\ ~crashed /\ spc = "idle"
  /\ TakeOp
  /\ GUILD_CFG' = Pop(GUILD_CFG, g)
  /\ StartSave("unregister", g, NoEntry, <<>>, Has(GUILD_CFG, g))
  /\ UNCHANGED <<messages, content, newMsgs, cycleAndWorld, catalogVars, resolverVars, browseVars, requests, loops, save_raised>>

\* The lists of marked guilds a sweep can end with.
DeadLists == { <<1>>, <<2>>, <<1, 2>>, <<2, 1>> }

\* The pruning step of update_event_panels: for gid in dead_guilds:
\* GUILD_CFG.pop(gid, None), then save_guild_cfg(GUILD_CFG).
PruneDead(dead) ==
  /\ ~crashed /\ spc = "idle"
  /\ TakeOp
  /\ GUILD_CFG' = Pruned(GUILD_CFG, dead)
  /\ StartSave("prune", 0, NoEntry, dead, FALSE)
  /\ UNCHANGED <<messages, content, newMsgs, cycleAndWorld, catalogVars, resolverVars, browseVars, requests, loops, save_raised>>

\* The save raises OSError (open, write or os.replace fails).
SaveRaised ==
  /\ spc' = "raised"
  /\ op' = [op EXCEPT !.save_failed = TRUE]

\* with open(tmp, "w") as f: the file is created, or emptied if a save left
\* it behind.
SaveOpen ==
  /\ ~crashed /\ spc = "open"
  /\ \/ /\ spc' = "dump"
        /\ IF SaveTarget = "tmp"
           THEN tmp' = CorruptFile /\ UNCHANGED disk
           ELSE disk' = CorruptFile /\ UNCHANGED tmp
        /\ UNCHANGED op
     \/ SaveRaised /\ UNCHANGED <<disk, tmp>>
  /\ UNCHANGED <<GUILD_CFG, ready, ops, worldVars, newMsgs, cycleVars, reg,
                 reply, crashed, catalogVars, resolverVars, browseVars, requests, loops, save_raised>>

\* json.dump(cfg, f, indent=2, sort_keys=True) and the end of the with block:
\* the file holds the whole dump and is closed; or the write raises and the
\* file is left with a part of it.
SaveDump ==
  /\ ~crashed /\ spc = "dump"
  /\ \/ /\ spc' = "replace"
        /\ IF SaveTarget = "tmp"
           THEN tmp' = Dump(GUILD_CFG) /\ UNCHANGED disk
           ELSE disk' = Dump(GUILD_CFG) /\ UNCHANGED tmp
        /\ UNCHANGED op
     \/ SaveRaised /\ UNCHANGED <<disk, tmp>>
  /\ UNCHANGED <<GUILD_CFG, ready, ops, worldVars, newMsgs, cycleVars, reg,
                 reply, crashed, catalogVars, resolverVars, browseVars, requests, loops, save_raised>>

\* os.replace(tmp, CONFIG_PATH): the file at CONFIG_PATH becomes the one
\* written, in one step of the file system.
SaveReplace ==
  /\ ~crashed /\ spc = "replace"
  /\ \/ /\ spc' = "returned"
        /\ IF SaveTarget = "tmp"
           THEN disk' = tmp /\ tmp' = MissingFile
           ELSE UNCHANGED <<disk, tmp>>
        /\ UNCHANGED op
     \/ SaveRaised /\ UNCHANGED <<disk, tmp>>
  /\ UNCHANGED <<GUILD_CFG, ready, ops, worldVars, newMsgs, cycleVars, reg,
                 reply, crashed, catalogVars, resolverVars, browseVars, requests, loops, save_raised>>

\* What the requester is told once the save has returned: the reply of the
\* command, or the log line of the pruning step.
Reported(o) ==
  IF o.kind = "register" THEN "configured"
  ELSE IF o.kind = "unregister"
  THEN (IF o.existed THEN "removed" ELSE "not_configured")
  ELSE "cleaned_up"

\* The replies that report the mutation as done.
SuccessReplies == {"configured", "removed", "not_configured", "cleaned_up"}

\* The mutation ends: it reports, or the error of the save leaves it and
\* reaches its caller (the command framework or the loop), which logs it.
EndMutation ==
  /\ ~crashed /\ spc \in {"returned", "raised"}
  /\ spc' = "idle"
  /\ reply' = IF spc = "returned" \/ OnSaveFailure = "swallow"
              THEN Reported(op) ELSE "exception"
  /\ UNCHANGED <<panelVars, catalogVars, resolverVars, browseVars, requests, loops, save_raised, tmp, op, crashed>>

\* The process dies, at any point.
Crash ==
  /\ ~crashed
  /\ crashed' = TRUE
  /\ UNCHANGED <<panelVars, catalogVars, resolverVars, browseVars, requests, loops, save_raised, tmp, spc, op, reply>>

\* The process is started again and on_ready loads the registry from the file.
Restart ==
  /\ crashed
  /\ crashed' = FALSE
  /\ ready' = TRUE
  /\ GUILD_CFG' = load_guild_cfg(disk)
  /\ spc' = "idle"
  /\ op' = NoOp
  /\ reply' = "none"
  /\ UNCHANGED <<disk, ops, worldVars, newMsgs, cycleVars, reg, tmp, catalogVars,
                 resolverVars, browseVars, requests, loops, save_raised>>

\* ------------------------------------------------------------------ build_active_events_embed

\* Map names, numbered in the order sorted() puts them (str(e.get("map"))).
MapIds == {1, 2}

\* A descriptor of the schedule: a mapping with a name, a map and, when timed,
\* numeric startTime and endTime in epoch milliseconds; or no mapping at all.
Event(n, mp, st, et) ==
  [kind |-> "dict", name |-> n, map |-> mp, timed |-> TRUE,
   startTime |-> st, endTime |-> et]

UntimedEvent ==
  [kind |-> "dict", name |-> "Harvester", map |-> 1, timed |-> FALSE,
   startTime |-> 0, endTime |-> 0]

NotAnEvent ==
  [kind |-> "other", name |-> "Unknown", map |-> 1, timed |-> FALSE,
   startTime |-> 0, endTime |-> 0]

\* The schedules the endpoint may return: one event on a whole second, one
\* event off a whole second, and a list with two maps and two descriptors
\* that are skipped.
Schedules ==
  { << Event("Harvester", 1, 1000, 2000) >>,
    << Event("Harvester", 1, 1500, 2500) >>,
    << Event("Matriarch", 2, 1000, 2000), NotAnEvent,
       Event("Locked Gate", 1, 1500, 2500), UntimedEvent >> }

\* The amounts of time (ms) that pass between two looks at the clock.
TickSteps == {1, 499, 500, 999, 1000}

\* How many events the resolver's run takes: passages of time and changes of
\* the schedule.
MaxTicks == 3

\* now_unix = int(now_utc.timestamp()): whole seconds, the fraction dropped.
now_unix(clk) == clk \div 1000

\* now_ms = now_unix * 1000
now_ms(clk) == now_unix(clk) * 1000

\* if isinstance(e, dict) ... isinstance(st, (int, float)) and isinstance(et,
\* (int, float)): if now_ms >= int(st) and now_ms < int(et)
IsActive(e, clk) ==
  /\ e.kind = "dict" /\ e.timed
  /\ now_ms(clk) >= e.startTime /\ now_ms(clk) < e.endTime

\* EVENT_BLUEPRINTS.get(ev, []): the curated names of an event (eleven for
\* Locked Gate, two for Harvester, one for Matriarch, none otherwise).
EVENT_BLUEPRINTS(ev) ==
  IF ev = "Locked Gate" THEN [i \in 1..11 |-> IF i = 1 THEN <<"B">> ELSE <<"P">>]
  ELSE IF ev = "Harvester" THEN << <<"B">>, <<"P">> >>
  ELSE IF ev = "Matriarch" THEN << <<"B", "P">> >>
  ELSE <<>>

\* item_display(name): the catalog's spelling of the name, if the index has it.
item_display(name) ==
  LET it == IndexGet(ITEMS_BY_NAME, Lower(name)) IN
    IF it = NoItem THEN name ELSE it.name

\* seq[:n]
Take(seq, n) == SubSeq(seq, 1, IF Len(seq) < n THEN Len(seq) ELSE n)

\* The lines of one event: its name, up to ten curated names as displayed,
\* and the ellipsis when there are more.
EventLines(ev) ==
  LET bps == EVENT_BLUEPRINTS(ev) IN
    [event |-> ev,
     blueprints |-> [i \in 1..Len(Take(bps, 10)) |-> item_display(bps[i])],
     more |-> Len(bps) > 10]

\* active_by_map[mp]: the names of the active events of map mp, in schedule
\* order.
ActiveOn(raw, mp, clk) ==
  LET on == SelectSeq(raw, LAMBDA e : IsActive(e, clk) /\ e.map = mp)
  IN [i \in 1..Len(on) |-> on[i].name]

\* for mp, evs in sorted(active_by_map.items()): one field per map with an
\* active event, holding the lines of its first six events.
RECURSIVE FieldsFrom(_, _, _)
FieldsFrom(mp, raw, clk) ==
  IF mp \notin MapIds THEN <<>>
  ELSE LET evs == ActiveOn(raw, mp, clk)
           field == [map |-> mp,
                     lines |-> [i \in 1..Len(Take(evs, 6)) |-> EventLines(evs[i])]]
       IN (IF evs = <<>> THEN <<>> ELSE <<field>>) \o FieldsFrom(mp + 1, raw, clk)

\* The embed: its description carries the second it was built in, its fields
\* the active events by map.
ActiveEventsEmbed(raw, clk) ==
  LET fields == FieldsFrom(1, raw, clk) IN
    [description |-> [none_active |-> fields = <<>>, updated |-> now_unix(clk)],
     fields |-> fields]

\* Time passes.
Tick ==
  /\ ticks < MaxTicks
  /\ ticks' = ticks + 1
  /\ \E d \in TickSteps : clock' = clock + d
  /\ UNCHANGED <<schedule, built, panelVars, catalogVars, storeVars, browseVars, requests, loops, save_raised>>

\* The endpoint serves another schedule from now on.
ChangeSchedule ==
  /\ ticks < MaxTicks
  /\ ticks' = ticks + 1
  /\ \E s \in Schedules \ {schedule} : schedule' = s
  /\ UNCHANGED <<clock, built, panelVars, catalogVars, storeVars, browseVars, requests, loops, save_raised>>

\* build_active_events_embed once the schedule fetch has returned: the clock
\* is read and the embed built, with no await. Each cycle does this once; the
\* last two builds are kept, each with the schedule and the clock it read.
build_active_events_embed ==
  /\ built' = Take(<<[view |-> ActiveEventsEmbed(schedule, clock),
                      schedule |-> schedule, clock |-> clock]>> \o built, 2)
  /\ UNCHANGED <<clock, schedule, ticks, panelVars, catalogVars, storeVars, browseVars, requests, loops, save_raised>>

\* ------------------------------------------------------------------ BlueprintView

\* The users who start a browse session or press its buttons.
Users == {1, 2}

\* How many events a browse session's run takes: presses of a button and
\* passages of time.
MaxBrowseOps == 3

\* super().__init__(timeout=300): seconds without an accepted interaction
\* after which the view takes no more input.
ViewTimeout == 300

\* The amounts of time (s) that pass between two events of a session.
IdleSteps == {1, 299}

\* The order of characters str comparison uses, on lower-cased text.
CharRank(ch) == IF ch = " " THEN 0 ELSE IF ch = "b" THEN 1 ELSE 2

\* a < b for lower-cased texts.
RECURSIVE LexLess(_, _)
LexLess(a, b) ==
  IF a = <<>> THEN b # <<>>
  ELSE IF b = <<>> THEN FALSE
  ELSE IF CharRank(Head(a)) # CharRank(Head(b))
  THEN CharRank(Head(a)) < CharRank(Head(b))
  ELSE LexLess(Tail(a), Tail(b))

\* sorted((bp.name for bp in BP_DB.values()), key=lambda s: s.lower()), taken
\* over the keys that are left (a key of BP_DB is its record's name.lower()).
RECURSIVE NamesFrom(_, _)
NamesFrom(db, keys) ==
  IF keys = {} THEN <<>>
  ELSE LET k == CHOOSE x \in keys : \A y \in keys \ {x} : LexLess(x, y)
       IN <<db[k]>> \o NamesFrom(db, keys \ {k})

\* BlueprintView(blueprint_names, author_id): the session starts at index 0.
BlueprintView(blueprint_names, author_id) ==
  [blueprint_names |-> blueprint_names, author_id |-> author_id, idx |-> 0]

\* The blueprints command (prefix and slash): without data it only replies;
\* otherwise it creates the view over the sorted names and sends it. One
\* session is followed: a session shares nothing with another one.
StartBrowse(user) ==
  /\ view = NoView
  /\ IF BP_DB = EmptyDb
     THEN /\ answer' = [by |-> user, got |-> "not_loaded", at |-> bops]
          /\ UNCHANGED view
     ELSE /\ view' = BlueprintView(NamesFrom(BP_DB, DOMAIN BP_DB), user)
          /\ answer' = [by |-> user, got |-> "started", at |-> bops]
  /\ UNCHANGED <<idle, nexts, prevs, bops>>
  /\ UNCHANGED <<panelVars, catalogVars, storeVars, resolverVars, requests, loops, save_raised>>

\* (mutant) every user passes the check.
interaction_check_Anyone(user, author_id) == TRUE

\* interaction_check: interaction.user.id == self.author_id
interaction_check(user, author_id) == user = author_id

\* (mutant) the view is created without a timeout.
is_finished_Never(t) == FALSE

\* The view has timed out: its timeout has passed since the view last ran a
\* callback (or was sent), and it takes no more input.
is_finished(t) == t >= ViewTimeout

\* (mutant) the remainder has the sign of the dividend.
advance_Truncating(i, delta, n) ==
  IF i + delta < 0 THEN 0 - ((0 - (i + delta)) % n) ELSE (i + delta) % n

\* self.idx = (self.idx + delta) % len(self.blueprint_names): Python's %
\* takes the sign of the divisor.
advance(i, delta, n) == (i + delta) % n

\* A user presses Prev (delta = -1) or Next (delta = 1). A view that has
\* timed out is no longer dispatched to; otherwise interaction_check decides
\* whether the button's callback runs, and the callback moves the index and
\* edits the message. Whether a press that fails the check restarts the
\* timeout depends on the release of the library, so both are allowed.
Press(user, delta) ==
  /\ view # NoView
  /\ bops < MaxBrowseOps
  /\ bops' = bops + 1
  /\ IF is_finished(idle)
     THEN /\ answer' = [by |-> user, got |-> "expired", at |-> bops + 1]
          /\ UNCHANGED <<view, idle, nexts, prevs>>
     ELSE IF ~interaction_check(user, view.author_id)
     THEN /\ answer' = [by |-> user, got |-> "rejected", at |-> bops + 1]
          /\ idle' \in {idle, 0}
          /\ UNCHANGED <<view, nexts, prevs>>
     ELSE /\ view' = [view EXCEPT
                        !.idx = advance(@, delta, Len(view.blueprint_names))]
          /\ idle' = 0
          /\ nexts' = IF delta = 1 THEN nexts + 1 ELSE nexts
          /\ prevs' = IF delta = -1 THEN prevs + 1 ELSE prevs
          /\ answer' = [by |-> user, got |-> "edited", at |-> bops + 1]
  /\ UNCHANGED <<panelVars, catalogVars, storeVars, resolverVars, requests, loops, save_raised>>

\* Time passes with no interaction.
Idle ==
  /\ view # NoView
  /\ bops < MaxBrowseOps
  /\ bops' = bops + 1
  /\ \E d \in IdleSteps : idle' = idle + d
  /\ UNCHANGED <<view, nexts, prevs, answer>>
  /\ UNCHANGED <<panelVars, catalogVars, storeVars, resolverVars, requests, loops, save_raised>>

\* ------------------------------------------------------------------ specification

Next ==
  \/ on_ready
  \/ DeleteMessage
  \/ DeleteChannel
  \/ \E g \in Guilds : SetPanelStart(g)
  \/ \E g \in Guilds : SetPanelBuilt(g)
  \/ \E g \in Guilds : SetPanelSent(g)
  \/ \E g \in Guilds : SetPanelSendFails(g)
  \/ \E g \in Guilds : RemovePanel(g)
  \/ \E c \in Cycles : BeginCycle(c)
  \/ \E c \in Cycles : BuildDone(c)
  \/ \E c \in Cycles : BuildFails(c)
  \/ \E c \in Cycles : Deliver(c)
  \/ \E c \in Cycles : EndCycle(c)

CatalogNext ==
  \/ \E r \in Refreshers : BeginRefresh(r)
  \/ \E r \in Refreshers : FirstPage(r)
  \/ \E r \in Refreshers : NextPage(r)
  \/ \E r \in Refreshers : EndRefresh(r)
  \/ ChangeCsv
  \/ reload_blueprints
  \/ Render

\* The catalog and the blueprint dataset on their own: the registry is at rest.
AtRestInit == Init /\ disk = MissingFile

CatalogSpec == AtRestInit /\ [][CatalogNext]_vars

Spec == Init /\ [][Next]_vars

\* The loop's timer fires, the calls it awaits return (the HTTP client and the
\* Discord client bound every request by a timeout), and its task is resumed.
LoopFairness ==
  /\ WF_vars(BeginCycle("loop"))
  /\ WF_vars(BuildDone("loop") \/ BuildFails("loop"))
  /\ WF_vars(Deliver("loop"))
  /\ WF_vars(EndCycle("loop"))

\* The loop's progress is followed from the store that holds one deliverable
\* panel and one whose channel is gone: its first cycle prunes and writes.
LiveInit ==
  Init /\ disk = Dump(<<Entry(1, Panel(0, 0)), Entry(2, Panel(2, 2))>>)

LiveSpec == LiveInit /\ [][Next]_vars /\ LoopFairness

StoreNext ==
  \/ \E g \in Guilds : RegisterPanel(g)
  \/ \E g \in Guilds : UnregisterPanel(g)
  \/ \E dead \in DeadLists : PruneDead(dead)
  \/ SaveOpen
  \/ SaveDump
  \/ SaveReplace
  \/ EndMutation
  \/ Crash
  \/ Restart

\* The registry mutations with the save taken step by step.
StoreSpec == Init /\ [][StoreNext]_vars

ViewNext ==
  \/ Tick
  \/ ChangeSchedule
  \/ build_active_events_embed

\* The resolver on its own, from each schedule, the registry at rest.
ViewInit ==
  /\ PanelInit /\ disk = MissingFile
  /\ CatalogInit /\ StoreInit /\ BrowseInit /\ RequestsInit /\ LoopsInit
  /\ save_raised = FALSE
  /\ ResolverIdle
  /\ clock = 0
  /\ schedule \in Schedules

ViewSpec == ViewInit /\ [][ViewNext]_vars

\* The catalog side some time after start-up: setup_hook loaded the
\* blueprint file it found, and the file may have been replaced, removed or
\* made unreadable since.
ReloadInit ==
  /\ PanelInit /\ disk = MissingFile
  /\ CatalogIdle
  /\ \E f \in CsvFiles : f.state # "unreadable" /\ BP_DB = load_blueprints_csv(f)
  /\ csv \in CsvFiles
  /\ StoreInit /\ ResolverInit /\ BrowseInit /\ RequestsInit /\ LoopsInit
  /\ save_raised = FALSE

ReloadSpec == ReloadInit /\ [][CatalogNext]_vars

\* Ready events (the first connect and every reconnect) and the steps of the
\* periodic reconciler on their own: here ops counts the repeated ready events.
ReadyNext ==
  \/ on_ready
  \/ BeginCycle("loop")
  \/ BuildDone("loop")
  \/ BuildFails("loop")
  \/ Deliver("loop")
  \/ EndCycle("loop")

ReadySpec == Init /\ [][ReadyNext]_vars

\* The commands that run an operation for their requester: refresh_cache,
\* reload_blueprints and blueprints, with the steps of the catalog.
CommandNext ==
  \/ \E r \in Refreshers : BeginRefresh(r)
  \/ \E r \in Refreshers : FirstPage(r)
  \/ \E r \in Refreshers : NextPage(r)
  \/ \E r \in Refreshers : EndRefresh(r)
  \/ ChangeCsv
  \/ reload_blueprints
  \/ Render
  \/ \E user \in Users : StartBrowse(user)

CommandSpec == ReloadInit /\ [][CommandNext]_vars

BrowseNext ==
  \/ \E user \in Users : StartBrowse(user)
  \/ \E user \in Users, delta \in {-1, 1} : Press(user, delta)
  \/ Idle

\* The blueprint files found at start-up: none, and files of one, two and
\* three named rows.
BrowseCsvFiles ==
  { [state |-> "missing", names |-> <<>>],
    [state |-> "rows", names |-> << <<"B">> >>],
    [state |-> "rows", names |-> << <<" ", "B">>, <<" ">>, <<"P">> >>],
    [state |-> "rows", names |-> << <<"P">>, <<"B", "P">>, <<"B">> >>] }

\* A browse session on its own; setup_hook has loaded the blueprint file.
BrowseSpecInit ==
  /\ PanelInit /\ disk = MissingFile
  /\ CatalogIdle
  /\ csv \in BrowseCsvFiles
  /\ BP_DB = load_blueprints_csv(csv)
  /\ StoreInit /\ ResolverInit /\ BrowseInit /\ RequestsInit /\ LoopsInit
  /\ save_raised = FALSE

BrowseSpec == BrowseSpecInit /\ [][BrowseNext]_vars

\* ------------------------------------------------------------------ claims: the reconciler

\* A cycle is in progress: its body has started and has not returned or raised.
InProgress(c) == pc[c] \in {"build", "deliver"}

\* Runner c's body ends in this step.
BodyEnds(c) == InProgress(c) /\ ~InProgress(c)'

\* Runner c takes a step of its body.
BodyStep(c) == pc'[c] # pc[c] \/ idx'[c] # idx[c]

\* C1: a registration made while a cycle is suspended in its sweep survives the
\* cycle's pruning step: when the body ends, every guild whose registry entry
\* is not the one the cycle listed still has that entry in memory, and the
\* store still holds it if it held it before.
C1_PruneKeepsRacingRegistration ==
  [][\A c \in Cycles : \A g \in Guilds :
       (/\ BodyEnds(c)
        /\ Has(GUILD_CFG, g)
        /\ EntryOf(GUILD_CFG, g) # EntryOf(snap'[c], g))
       => /\ EntryOf(GUILD_CFG', g) = EntryOf(GUILD_CFG, g)
          /\ (EntryOf(Stored(disk), g) = EntryOf(GUILD_CFG, g)
              => EntryOf(Stored(disk'), g) = EntryOf(GUILD_CFG, g))]_vars

\* C2: at most one execution of the reconciliation cycle is in progress.
C2_CyclesSerialized == Cardinality({c \in Cycles : InProgress(c)}) <= 1

\* C3: whatever fails inside a cycle of the periodic reconciler, the loop goes
\* back to sleep and its next cycle starts.
C3_NextCycleStarts ==
  /\ (result["loop"] \notin {"none", "running"}) ~> (pc["loop"] = "sleep")
  /\ (pc["loop"] = "sleep") ~> (result["loop"] # "none")

\* A cycle of the loop has started after the durable write of the previous one
\* failed.
C3_Witness == last_iteration_failed /\ pc["loop"] = "build"

\* C4: when a cycle completes, no guild whose channel did not resolve or whose
\* message was reported gone has an entry, in memory or in the store.
C4_DeadPanelsRemoved ==
  [][\A c \in Cycles : \A g \in Guilds :
       (/\ BodyEnds(c)
        /\ result'[c] = "completed"
        /\ outs'[c][g] \in {"notfound", "nochannel"})
       => /\ ~Has(GUILD_CFG', g)
          /\ ~Has(Stored(disk'), g)]_vars

\* A cycle has completed that found one message gone and one channel
\* unresolvable; neither guild is registered any more.
C4_Witness ==
  \E c \in Cycles : \E g, h \in Guilds :
    /\ pc[c] = "done" /\ result[c] = "completed"
    /\ outs[c][g] = "notfound" /\ outs[c][h] = "nochannel"
    /\ Keys(GUILD_CFG) = {} /\ Keys(Stored(disk)) = {}

\* C5: no step of a cycle changes the entry of a guild whose delivery ended
\* with a permission denial or another delivery error: the in-memory entry is
\* as before, and the store's entry is as before or, when the cycle wrote the
\* registry, is that same in-memory entry.
C5_FailedDeliveryKept ==
  [][\A c \in Cycles : \A g \in Guilds :
       (BodyStep(c) /\ outs'[c][g] \in {"forbidden", "http"})
       => /\ EntryOf(GUILD_CFG', g) = EntryOf(GUILD_CFG, g)
          /\ \/ EntryOf(Stored(disk'), g) = EntryOf(Stored(disk), g)
             \/ EntryOf(Stored(disk'), g) = EntryOf(GUILD_CFG, g)]_vars

\* A cycle has completed and pruned one guild while the delivery to another was
\* denied; the denied one is still registered, in memory and in the store.
C5_Witness ==
  \E c \in Cycles : \E g, h \in Guilds :
    /\ pc[c] = "done" /\ result[c] = "completed"
    /\ outs[c][g] = "forbidden" /\ outs[c][h] = "notfound"
    /\ Has(GUILD_CFG, g) /\ Get(GUILD_CFG, g) = EntryOf(snap[c], g)
    /\ EntryOf(Stored(disk), g) = Get(GUILD_CFG, g)
    /\ ~Has(GUILD_CFG, h)

\* C6: once the view is computed, the sweep reaches every panel it listed:
\* when the body has ended, each listed guild has an outcome, and while it is
\* suspended every guild listed before the current one has.
C6_EveryPanelAttempted ==
  \A c \in Cycles : \A i \in 1..Len(snap[c]) :
    (\/ pc[c] = "done" /\ result[c] \in {"completed", "save_failed"}
     \/ pc[c] = "deliver" /\ i < idx[c])
    => outs[c][snap[c][i].gid] # "none"

\* A cycle has ended in which the first panel could not be read, or its
\* delivery failed, and the second was updated.
C6_Witness ==
  \E c \in Cycles :
    /\ pc[c] = "done" /\ Len(snap[c]) = 2
    /\ outs[c][snap[c][1].gid] \in {"malformed", "notfound", "forbidden", "http"}
    /\ outs[c][snap[c][2].gid] = "ok"
    /\ content[snap[c][2].panel.message_id] = "view"

\* C7: the step in which the schedule fetch fails ends the body and changes
\* neither a panel, nor the registry, nor the store; the cycle has made no
\* delivery and no write.
C7_FetchFailureTouchesNothing ==
  [][\A c \in Cycles :
       (pc[c] = "build" /\ result'[c] = "fetch_failed")
       => /\ UNCHANGED <<GUILD_CFG, disk, content, messages>>
          /\ ~InProgress(c)'
          /\ outs'[c] = NoOuts
          /\ writes'[c] = 0]_vars

\* A cycle over a non-empty registry has ended on a failed schedule fetch; the
\* panels still show what they showed.
C7_Witness ==
  \E c \in Cycles :
    /\ pc[c] = "done" /\ result[c] = "fetch_failed"
    /\ GUILD_CFG # <<>>
    /\ \A m \in InitMessages : content[m] = "stale"

\* C8: a cycle calls save_guild_cfg at most once, and not at all when it marked
\* no registration.
C8_OneWritePerCycle ==
  \A c \in Cycles :
    /\ writes[c] <= 1
    /\ (pc[c] = "done" /\ dead_guilds[c] = <<>>) => writes[c] = 0

\* A cycle has pruned two registrations with one write.
C8_Witness ==
  \E c \in Cycles :
    /\ pc[c] = "done" /\ Len(dead_guilds[c]) = 2 /\ writes[c] = 1
    /\ GUILD_CFG = <<>>

\* ------------------------------------------------------------------ claims: the catalog

\* Refresher r takes a step.
RefreshStep(r) == rpc'[r] # rpc[r] \/ page'[r] # page[r]

\* Refresher r's load_items_all_pages returns in this step, every page fetched.
AllPagesFetched(r) ==
  /\ rpc[r] \in {"first", "pages"} /\ rpc'[r] = "done"
  /\ routcome'[r] \in {"ok", "index_failed"}
  /\ page'[r] = total_pages'[r]

\* C9: a refresh changes the catalog (raw list and index) in no step but the
\* one in which its last page has arrived: a refresh that fails on a page
\* request or on a payload that is no list leaves the catalog as it was.
C9_RefreshAllOrNothing ==
  [][\A r \in Refreshers :
       (RefreshStep(r) /\ ~AllPagesFetched(r))
       => UNCHANGED <<ITEMS_RAW, ITEMS_BY_NAME>>]_vars

\* A refresh has failed on its second page, after a first page of entries;
\* the catalog is the one an earlier refresh built.
C9_Witness ==
  \E r \in Refreshers :
    /\ rpc[r] = "done" /\ routcome[r] \in PageFailures
    /\ page[r] = 2 /\ all_items[r] # <<>>
    /\ ITEMS_RAW # <<>> /\ ITEMS_BY_NAME = build_items_index(ITEMS_RAW)
    /\ ITEMS_BY_NAME # EmptyIndex

\* C10: between any two steps the indexes are whole: ITEMS_BY_NAME changes only
\* to the index built from every page of one refresh, and BP_DB only to the
\* index loaded from the whole file, each in a single step.
C10_IndexSwapIsAtomic ==
  [][/\ ITEMS_BY_NAME' # ITEMS_BY_NAME
        => \E r \in Refreshers :
             /\ AllPagesFetched(r)
             /\ ITEMS_BY_NAME' = build_items_index(all_items'[r])
     /\ BP_DB' # BP_DB => BP_DB' = load_blueprints_csv(csv)]_vars

\* A render ran while a refresh was between two pages and found the old
\* (empty) index; the refresh has since put the two-page index in place.
C10_Witness ==
  /\ shown.during_refresh /\ shown.item = NoItem
  /\ \E r \in Refreshers :
       /\ rpc[r] = "done" /\ routcome[r] = "ok" /\ total_pages[r] = 2
       /\ ITEMS_BY_NAME = build_items_index(all_items[r])
       /\ <<"b">> \in DOMAIN ITEMS_BY_NAME

\* ------------------------------------------------------------------ claims: the durable store

\* C11: the file at CONFIG_PATH is never a partly written one: whatever step a
\* save has reached, also with the process dead at that step, the file holds
\* the whole registry it held before the save or the whole registry saved.
C11_StoreNeverPartial ==
  /\ disk.state # "corrupt"
  /\ op.kind # "none" => disk \in {op.before, Dump(op.saving)}

\* The process died between the opening of the temporary file and the end of
\* the dump; the temporary file is partial and the store is the one before.
C11_Witness ==
  /\ crashed /\ spc = "dump"
  /\ tmp = CorruptFile
  /\ disk.state = "dict" /\ disk = op.before /\ disk # Dump(op.saving)

\* The change a mutation made is in the in-memory registry.
ChangeHeld(o) ==
  IF o.kind = "register" THEN EntryOf(GUILD_CFG, o.gid) = o.panel
  ELSE IF o.kind = "unregister" THEN ~Has(GUILD_CFG, o.gid)
  ELSE \A i \in 1..Len(o.dead) : ~Has(GUILD_CFG, o.dead[i])

\* C12: when the save of a mutation (register, unregister, pruning) raises,
\* the in-memory registry keeps the change and the requester is not told
\* that the mutation succeeded.
C12_SaveFailureSurfaced ==
  op.save_failed => ChangeHeld(op) /\ reply \notin SuccessReplies

\* A registration whose os.replace raised has ended with the exception; the
\* registry holds the new panel and the store does not.
C12_Witness ==
  /\ op.kind = "register" /\ op.save_failed /\ spc = "idle"
  /\ reply = "exception"
  /\ tmp = Dump(GUILD_CFG)
  /\ EntryOf(GUILD_CFG, op.gid) = op.panel
  /\ EntryOf(Stored(disk), op.gid) # op.panel

\* C13: once a registration has reported, loading the store yields the
\* registered entry for the guild; once an unregistration has reported,
\* loading the store yields no entry for it.
C13_RegistryRoundTrip ==
  /\ reply = "configured"
       => EntryOf(load_guild_cfg(disk), op.gid) = op.panel
  /\ reply \in {"removed", "not_configured"}
       => ~Has(load_guild_cfg(disk), op.gid)

\* Guild 2 has moved its panel to a new message and guild 1 has then been
\* unregistered; the store holds guild 2's new panel and nothing for guild 1.
C13_Witness ==
  /\ reply = "removed" /\ op.gid = 1
  /\ load_guild_cfg(disk) = <<Entry(2, Panel(2, NewMsgId(1)))>>

\* ------------------------------------------------------------------ claims: the resolver

\* Embed v lists event e under its map.
ReportedActive(v, e) ==
  \E i \in 1..Len(v.fields) :
    /\ v.fields[i].map = e.map
    /\ \E j \in 1..Len(v.fields[i].lines) : v.fields[i].lines[j].event = e.name

\* C14: an embed built at clock reading t lists an event exactly when
\* startTime <= t < endTime, t in milliseconds: an event from t to t + 1000 is
\* listed at t and at t + 999, and not at t - 1 nor at t + 1000.
C14_HalfOpenWindow ==
  \A k \in 1..Len(built) : \A i \in 1..Len(built[k].schedule) :
    LET e == built[k].schedule[i] IN
      (e.kind = "dict" /\ e.timed)
      => (ReportedActive(built[k].view, e)
          <=> (e.startTime <= built[k].clock /\ built[k].clock < e.endTime))

\* C18: two consecutive builds from the same schedule give the same embed.
C18_SameViewTwice ==
  (Len(built) = 2 /\ built[1].schedule = built[2].schedule)
  => built[1].view = built[2].view

\* C15. Browse wraparound: in a session over n >= 1 names, after any run of
\* Next and Prev presses the position is in [0, n) and equals (number of
\* Next presses - number of Prev presses) mod n.
C15_BrowseWraparound ==
  view # NoView =>
    LET n == Len(view.blueprint_names)
    IN /\ n >= 1
       /\ view.idx \in 0..(n - 1)
       /\ view.idx = (nexts - prevs) % n

\* A three-name session whose only press was Prev at index 0: it is on 2.
C15_Witness ==
  /\ Len(view.blueprint_names) = 3
  /\ prevs = 1
  /\ nexts = 0
  /\ view.idx = 2

\* A step in which a button of the session is pressed.
Pressed == view # NoView /\ answer'.at = bops + 1

\* C16. Browse authorization: a press is acted on only when it comes from
\* the user who started the session; a press by any other user is turned
\* away and leaves the position unchanged.
C16_BrowseAuthorization ==
  [][Pressed =>
       /\ answer'.got = "edited" => answer'.by = view.author_id
       /\ answer'.by # view.author_id => view' = view]_vars

\* The author moved to index 1, then another user pressed and was rejected
\* with the position still 1.
C16_Witness ==
  /\ answer.got = "rejected"
  /\ answer.by # view.author_id
  /\ nexts = 1
  /\ view.idx = 1

\* C17. Browse session expiry: a session is live until 300 seconds have
\* passed without an accepted press; once they have, every press is turned
\* away, the position never changes again and the session stays expired.
C17_BrowseExpiry ==
  [][/\ (Pressed /\ idle < 300 /\ answer'.by = view.author_id)
           => answer'.got = "edited"
     /\ (view # NoView /\ idle >= 300)
           => /\ view' = view
              /\ idle' >= 300
              /\ Pressed => answer'.got = "expired"]_vars

\* The author's press after exactly 300 idle seconds was turned away.
C17_Witness ==
  /\ idle = 300
  /\ answer.got = "expired"
  /\ answer.by = view.author_id
  /\ view.idx = 0

C20_MalformedPaginationSinglePage ==
  [][\A r \in Refreshers :
       (/\ rpc[r] = "first"
        /\ first'[r].kind = "page"
        /\ first'[r].pagination.kind
             \in {"absent", "map_without_total", "map_text_total", "not_a_map"})
       => /\ rpc'[r] = "done"
          /\ routcome'[r] # "bad_pagination"
          /\ ITEMS_RAW' = first'[r].data]_vars

\* C21. Every operation a user invokes (refresh_cache, reload_blueprints,
\* blueprints), in its prefix form and in its slash form, answers a failure
\* with a readable message to the requester: no failed operation ends
\* without a reply.
C21_FailureAnswered ==
  /\ \A o \in OwnerCommands :
       (requests[o].failed /\ requests[o].said # "pending")
         => requests[o].said \in {"Refresh failed", "Reload failed"}
  /\ (answer.got # "none" /\ view = NoView) => answer.got = "not_loaded"

\* The entry has a name that is text and not blank.
Named(it) == it.name_is_str /\ Strip(it.name) # <<>>

\* The positions of items whose entry is named and normalises to key.
PositionsOf(items, key) ==
  {i \in 1..Len(items) : Named(items[i]) /\ Lower(Strip(items[i].name)) = key}

\* C22. When page 1 reports totalPages = k and the refresh succeeds, all k
\* pages have been fetched, and the index holds exactly the named entries of
\* those pages under their trimmed lower-cased names, each key with the entry
\* fetched last under it.
C22_IndexIsUnionLastWins ==
  [][\A r \in Refreshers :
       (routcome[r] = "running" /\ routcome'[r] = "ok")
       => LET items == all_items'[r]
              keys == {Lower(Strip(items[i].name)) :
                         i \in {j \in 1..Len(items) : Named(items[j])}}
          IN /\ page[r] = total_pages'[r]
             /\ SubSeq(items, 1, Len(first'[r].data)) = first'[r].data
             /\ ITEMS_RAW' = items
             /\ DOMAIN ITEMS_BY_NAME' = keys
             /\ \A key \in keys :
                  \E i \in PositionsOf(items, key) :
                    /\ \A j \in PositionsOf(items, key) : j <= i
                    /\ ITEMS_BY_NAME'[key] = items[i]]_vars

\* A refresh of two pages has succeeded: "B" of page 1 and " b " of page 2
\* collide, and the index holds page 2's entry.
C22_Witness ==
  \E r \in Refreshers :
    /\ routcome[r] = "ok"
    /\ total_pages[r] = 2
    /\ Len(all_items[r]) = 5
    /\ ITEMS_RAW = all_items[r]
    /\ DOMAIN ITEMS_BY_NAME = {<<"b">>, <<"b", " ", "p">>}
    /\ ITEMS_BY_NAME[<<"b">>] = Item(<<" ", "b", " ">>, "rare")

\* C23. A register or unregister for guild g leaves the stored record of
\* every other guild as it was, also when it runs before on_ready has
\* loaded the registry.
C23_OtherGuildsRecordsKept ==
  [][\A g \in Guilds :
       (SetPanelSent(g) \/ RemovePanel(g))
       => \A h \in Guilds \ {g} :
            Has(Stored(disk), h)
              => EntryOf(Stored(disk'), h) = EntryOf(Stored(disk), h)]_vars

\* C24. Once on_ready has loaded the registry, and unless the latest durable
\* write failed, the registry in memory holds what the durable store holds
\* in every state in which another task or handler can run: a mutation and
\* its write are one step.
C24_MemoryEqualsStore ==
  (ready /\ ~save_raised) => Dump(GUILD_CFG) = Dump(Stored(disk))

\* A registration was written while the loop's cycle is suspended in its
\* sweep: memory and store both hold the new panel of guild 1.
C24_Witness ==
  /\ ready
  /\ ~save_raised
  /\ pc["loop"] = "deliver"
  /\ newMsgs = 1
  /\ EntryOf(GUILD_CFG, 1) = Panel(ChannelOf(1), NewMsgId(1))
  /\ EntryOf(Stored(disk), 1) = Panel(ChannelOf(1), NewMsgId(1))

\* C25. However many ready events fire, each periodic loop has at most one
\* task, and on_ready never calls start() on a loop that is running.
C25_OneLoopInstance ==
  \A l \in Loops : loops[l].tasks <= 1 /\ ~loops[l].refused

\* A ready event has fired again while the reconciler's cycle was suspended
\* in its sweep: both loops still have their one task.
C25_Witness ==
  /\ ready
  /\ ops >= 1
  /\ pc["loop"] = "deliver"
  /\ \A l \in Loops : loops[l].tasks = 1

====
